---- MODULE Spec2Model ----
(***************************************************************************)
(* Log-structured key/value store of package datastore (db.go): one active *)
(* segment file "current-data", closed segments "segment-<ts>.seg", an     *)
(* in-memory hash index, a single background writer fed by writeCh, a pool *)
(* of background readers fed by getCh, Compact and Close/Open (recovery).  *)
(***************************************************************************)
EXTENDS Integers, Sequences, FiniteSets, TLC

\* ------------------------------------------------------------------
\* Bounds of the model
\* ------------------------------------------------------------------

\* Calls of Put, Get, Compact and Close (with the Open that follows it) in one
\* behaviour.
MaxCalls == 4
\* I/O calls that fail in one behaviour.
MaxFaults == 1
\* DS_MAX_SEGMENT_BYTES, in cells of the encoding below: a maximum the larger
\* record reaches at once, and one under which two records fit.
MaxSegBytes == 6
LargeSegBytes == 11

\* getWorkerCount of db.go.
getWorkerCount == 10
\* cap(writeCh) and cap(getCh): make(chan ..., 128).
chanCap == 128

\* The values of DS_MAX_SEGMENT_BYTES Open is run with.
SegSizes == {MaxSegBytes, LargeSegBytes}

\* Keys and values are byte strings; a byte is a small number.
Keys == {<<1>>, <<2, 2>>}
Values == {<<1>>, <<2>>}

\* Directories Open is called with: a plain one, and one whose name holds a
\* glob metacharacter, so that filepath.Glob reports ErrBadPattern.
Dirs == {"db", "db["}
PutClients == {"p1"}
GetClients == {"g1"}

\* No value (values are not empty), no answer yet, no file.
None == <<>>
Pending == "pending"
NoResp == [value |-> <<>>, err |-> Pending]
NoFile == <<"none", 0>>

\* ------------------------------------------------------------------
\* Record codec: entry.Encode / entry.DecodeFromReader
\* ------------------------------------------------------------------

\* Cells in front of and between key and value: total size, key length, value length.
headerCells == 3

\* size | len(key) | key | len(value) | value
Encode(key, value) ==
    <<Len(key) + Len(value) + headerCells, Len(key)>> \o key \o <<Len(value)>> \o value

\* Decoding of the byte stream s: n bytes consumed, err in {"nil", "EOF", "corrupt"}.
\* A clean end of stream is (0, EOF); an incomplete record is (n > 0, EOF).
DecodeFromReader(s) ==
    IF Len(s) = 0
    THEN [n |-> 0, err |-> "EOF", key |-> <<>>, value |-> <<>>]
    ELSE LET size == s[1] IN
         IF size < headerCells
         THEN [n |-> 1, err |-> "corrupt", key |-> <<>>, value |-> <<>>]
         ELSE IF Len(s) < size
         THEN [n |-> Len(s), err |-> "EOF", key |-> <<>>, value |-> <<>>]
         ELSE LET kl == s[2] IN
              IF kl + headerCells > size \/ s[kl + 3] # size - kl - headerCells
              THEN [n |-> size, err |-> "corrupt", key |-> <<>>, value |-> <<>>]
              ELSE [n |-> size, err |-> "nil",
                    key |-> SubSeq(s, 3, kl + 2),
                    value |-> SubSeq(s, kl + 4, size)]

\* ------------------------------------------------------------------
\* File names and the file system
\* ------------------------------------------------------------------

\* filepath.Join(dir, activeFileName)
activeFileName == <<"current-data", 0>>
\* fmt.Sprintf("segment-%d.seg", ts)
SegmentName(ts) == <<"segment", ts>>
\* fmt.Sprintf("segment-%d-merged.seg", ts)
MergedName(ts) == <<"segment-merged", ts>>
\* fmt.Sprintf("compact-%d.seg", ts)
TmpName(ts) == <<"compact", ts>>

\* Names matched by closedPattern "segment-*.seg".
closedPattern(name) == name[1] \in {"segment", "segment-merged"}

\* file.Seek(offset, io.SeekStart): the bytes from offset on (0-based; beyond the
\* end of the file: nothing).
BytesFrom(data, offset) ==
    IF offset >= Len(data) THEN <<>> ELSE SubSeq(data, offset + 1, Len(data))

VARIABLES
    dir,          \* db.dir
    maxSegBytes,  \* db.maxSegBytes
    fs,           \* the directory: file name -> [data, mtime]
    now,          \* time.Now() / the file system's clock
    panic,        \* the call whose panic ended the process, or ""
    index,        \* db.index: key -> segPointer [file, offset]
    outOffset,    \* db.outOffset
    outOpen,      \* db.out is an open handle (on the file named current-data)
    indexMu,      \* db.indexMu: who holds it exclusively, who holds it shared
    writeCh,      \* db.writeCh: buffered requests
    writeChOpen,  \* db.writeCh is not closed
    wpc,          \* backgroundWriter: position in its loop
    wreq,         \* backgroundWriter: req, pos, n, err of the current iteration
    getCh,        \* db.getCh: buffered requests
    getChOpen,    \* db.getCh is not closed
    reads,        \* backgroundReader pool: lookups done, readEntry pending
    pcl,          \* callers of Put: [pc, key, value, done]
    gcl,          \* callers of Get: [pc, key, resp] and history [held, must, allowed]
    apc,          \* caller of Compact / Close / Open: position
    cmp,          \* Compact: its local variables
    cres,         \* Compact: the value it returned
    pre,          \* history: the store as Compact found it once the writer had stopped,
                  \* or as Close found it when it closed the write queue
    latest,       \* history: key -> value of the Put submitted last
    acked,        \* history: key -> value of the Put that returned nil last
    putFailed,    \* history: some Put returned an error
    called,       \* history: the calls made besides Put and Get
    openedAt,     \* history: ncalls when Open returned the store
    ncalls, nfaults, nwrites,
    appended      \* history: bytes backgroundWriter has appended to the directory's files

vars == <<dir, maxSegBytes, fs, now, panic, index, outOffset, outOpen, indexMu, writeCh, writeChOpen,
          wpc, wreq, getCh, getChOpen, reads, pcl, gcl, apc, cmp, cres, pre,
          latest, acked, putFailed, called, openedAt, ncalls, nfaults, nwrites, appended>>

crashed == panic # ""

dbVars == <<index, outOffset, outOpen, indexMu>>
writerVars == <<wpc, wreq>>
chanVars == <<writeCh, writeChOpen, getCh, getChOpen>>
adminVars == <<apc, cmp, cres, pre>>
histVars == <<latest, acked, putFailed, called, openedAt>>
countVars == <<ncalls, nwrites, appended>>

\* ------------------------------------------------------------------
\* File system calls
\* ------------------------------------------------------------------

\* The outcomes of one I/O call: it succeeds, or (while faults remain) it fails.
IOResults == IF nfaults < MaxFaults THEN {TRUE, FALSE} ELSE {TRUE}
Fault(ok) == nfaults' = IF ok THEN nfaults ELSE nfaults + 1

\* os.OpenFile(name, O_CREATE|..., ...) without O_TRUNC: an existing file is kept.
FsCreate(f, name, t) ==
    IF name \in DOMAIN f THEN f ELSE (name :> [data |-> <<>>, mtime |-> t]) @@ f
\* os.OpenFile(name, O_CREATE|O_RDWR|O_TRUNC, ...)
FsTruncate(f, name, t) ==
    [x \in DOMAIN f \cup {name} |-> IF x = name THEN [data |-> <<>>, mtime |-> t] ELSE f[x]]
\* File.Write on a file opened for append.
FsAppend(f, name, bytes, t) ==
    IF bytes = <<>> THEN f
    ELSE [f EXCEPT ![name] = [data |-> @.data \o bytes, mtime |-> t]]
\* os.Rename: the modification time is kept.
FsRename(f, old, new) ==
    [x \in (DOMAIN f \ {old}) \cup {new} |-> IF x = new THEN f[old] ELSE f[x]]
\* A Remove that leaves the file in place.
FsRemove_Keep(f, name) == f

\* os.Remove
FsRemove(f, name) == [x \in DOMAIN f \ {name} |-> f[x]]

\* filepath.Glob reports ErrBadPattern for a pattern with an unclosed '['.
BadPattern(d) == d = "db["

\* filepath.Glob(filepath.Join(dir, closedPattern)): the matches.
GlobClosed(f) == {x \in DOMAIN f : closedPattern(x)}

\* ------------------------------------------------------------------
\* Reading one entry
\* ------------------------------------------------------------------

\* Db.readEntry: os.Open, Seek, DecodeFromReader. The key found is not compared
\* with anything.
readEntry(f, ptr) ==
    IF ptr.file \notin DOMAIN f
    THEN [key |-> <<>>, value |-> <<>>, err |-> "ENOENT"]
    ELSE LET d == DecodeFromReader(BytesFrom(f[ptr.file].data, ptr.offset)) IN
         [key |-> d.key, value |-> d.value, err |-> d.err]

\* The answer for a missing key with the error left out.
MissingResult_NoError == [value |-> <<>>, err |-> "nil"]

\* req.response <- getResult{"", ErrNotFound}
MissingResult == [value |-> <<>>, err |-> "ErrNotFound"]

\* What Get(key) returns when the pool serves it against index idx and files f
\* with no other step in between.
GetResult(idx, f, key) ==
    IF key \notin DOMAIN idx
    THEN MissingResult
    ELSE LET rec == readEntry(f, idx[key]) IN
         IF rec.err = "nil" THEN [value |-> rec.value, err |-> "nil"]
         ELSE [value |-> <<>>, err |-> rec.err]

\* ------------------------------------------------------------------
\* db.indexMu (sync.RWMutex)
\* ------------------------------------------------------------------

\* The zero value: nobody holds the lock.
Unlocked == [excl |-> "", shared |-> {}]

\* Lock returns once nobody holds the lock; RLock once nobody holds it exclusively.
CanLock(mu) == mu.excl = "" /\ mu.shared = {}
CanRLock(mu) == mu.excl = ""

Lock(mu, who) == [mu EXCEPT !.excl = who]
RLock(mu, who) == [mu EXCEPT !.shared = @ \cup {who}]

\* An RUnlock that releases nothing.
RUnlock_Keep(mu, who) == mu

Unlock(mu) == [mu EXCEPT !.excl = ""]
RUnlock(mu, who) == [mu EXCEPT !.shared = @ \ {who}]

\* ------------------------------------------------------------------
\* Init: Open on an empty directory
\* ------------------------------------------------------------------

IdlePut == [pc |-> "idle", key |-> <<>>, value |-> <<>>, done |-> Pending]
IdleGet == [pc |-> "idle", key |-> <<>>, resp |-> NoResp, held |-> FALSE,
            must |-> FALSE, allowed |-> {}]
NoReq == [client |-> "", key |-> <<>>, value |-> <<>>, pos |-> 0, n |-> 0, err |-> "nil"]
NoCmp == [segs |-> <<>>, tmpName |-> NoFile, todo |-> {}, newPointers |-> <<>>,
          offset |-> 0, failed |-> FALSE]
NoPre == [index |-> <<>>, fs |-> <<>>, nwrites |-> 0]

Init ==
    /\ dir \in Dirs
    /\ maxSegBytes \in SegSizes
    /\ fs = (activeFileName :> [data |-> <<>>, mtime |-> 0])
    /\ now = 0
    /\ panic = ""
    /\ index = <<>>
    /\ outOffset = 0
    /\ outOpen = TRUE
    /\ indexMu = Unlocked
    /\ writeCh = <<>>
    /\ writeChOpen = TRUE
    /\ wpc = "recv"
    /\ wreq = NoReq
    /\ getCh = <<>>
    /\ getChOpen = TRUE
    /\ reads = {}
    /\ pcl = [c \in PutClients |-> IdlePut]
    /\ gcl = [c \in GetClients |-> IdleGet]
    /\ apc = "idle"
    /\ cmp = NoCmp
    /\ cres = Pending
    /\ pre = NoPre
    /\ latest = [k \in Keys |-> None]
    /\ acked = [k \in Keys |-> None]
    /\ putFailed = FALSE
    /\ called = {}
    /\ openedAt = 0
    /\ ncalls = 0 /\ nfaults = 0 /\ nwrites = 0 /\ appended = 0

\* A Db exists: Open has returned it and Close has not finished.
HasDb == ~crashed /\ apc \notin {"closed", "openFailed"}

\* ------------------------------------------------------------------
\* Db.Put and Db.Get, as their callers run them
\* ------------------------------------------------------------------

\* Values of the Puts for key that are submitted and not yet returned.
InFlight(key) == {pcl[c].value : c \in {x \in PutClients : pcl[x].pc = "waiting" /\ pcl[x].key = key}}

\* done := make(chan error, 1); resp := make(chan getResult, 1)
replyCap == 1

\* A send on a reply channel without a buffer: it waits for the caller's receive.
CanDeliver_Unbuffered(buffered) == FALSE

\* A send on a reply channel that holds `buffered` values returns at once while
\* the buffer has room; the caller's receive is not needed for it.
CanDeliver(buffered) == buffered < replyCap

\* The values buffered in the reply channel of a Put, of a Get.
DoneBuffered(c) == IF pcl[c].done = Pending THEN 0 ELSE 1
RespBuffered(g) == IF gcl[g].resp = NoResp THEN 0 ELSE 1

\* db.writeCh <- writeRequest{...}: a send on a closed channel panics.
PutSend(c, key, value) ==
    /\ HasDb
    /\ pcl[c].pc = "idle"
    /\ ncalls < MaxCalls
    /\ ncalls' = ncalls + 1
    /\ IF writeChOpen
       THEN /\ Len(writeCh) < chanCap
            /\ writeCh' = Append(writeCh, [client |-> c, key |-> key, value |-> value])
            /\ pcl' = [pcl EXCEPT ![c] = [pc |-> "waiting", key |-> key, value |-> value, done |-> Pending]]
            /\ latest' = [latest EXCEPT ![key] = value]
            /\ gcl' = [g \in GetClients |->
                         IF gcl[g].pc = "waiting" /\ gcl[g].key = key
                         THEN [gcl[g] EXCEPT !.allowed = @ \cup {value}]
                         ELSE gcl[g]]
            /\ UNCHANGED panic
       ELSE /\ panic' = "Put"
            /\ UNCHANGED <<writeCh, pcl, latest, gcl>>
    /\ UNCHANGED <<dir, maxSegBytes, fs, now, dbVars, writeChOpen, writerVars, getCh, getChOpen, reads,
                   adminVars, acked, putFailed, called, openedAt, nfaults, nwrites, appended>>

\* return <-done
PutReturn(c) ==
    /\ ~crashed
    /\ pcl[c].pc = "waiting"
    /\ pcl[c].done # Pending
    /\ pcl' = [pcl EXCEPT ![c] = IdlePut]
    /\ acked' = IF pcl[c].done = "nil" THEN [acked EXCEPT ![pcl[c].key] = pcl[c].value] ELSE acked
    /\ putFailed' = (putFailed \/ pcl[c].done # "nil")
    /\ UNCHANGED <<dir, maxSegBytes, fs, now, panic, dbVars, chanVars, writerVars, reads, gcl,
                   adminVars, latest, called, openedAt, countVars, nfaults>>

\* db.getCh <- getRequest{...}
GetSend(c, key) ==
    /\ HasDb
    /\ gcl[c].pc = "idle"
    /\ ncalls < MaxCalls
    /\ ncalls' = ncalls + 1
    /\ IF getChOpen
       THEN /\ Len(getCh) < chanCap
            /\ getCh' = Append(getCh, [client |-> c, key |-> key])
            /\ gcl' = [gcl EXCEPT ![c] =
                         [pc |-> "waiting", key |-> key, resp |-> NoResp,
                          held |-> FALSE,
                          must |-> acked[key] # None,
                          allowed |-> (IF acked[key] # None THEN {acked[key]} ELSE {})
                                        \cup InFlight(key)]]
            /\ UNCHANGED panic
       ELSE /\ panic' = "Get"
            /\ UNCHANGED <<getCh, gcl>>
    /\ UNCHANGED <<dir, maxSegBytes, fs, now, dbVars, writeCh, writeChOpen, getChOpen, writerVars, reads, pcl,
                   adminVars, histVars, nfaults, nwrites, appended>>

\* r := <-resp; return r.value, r.err
GetReturn(c) ==
    /\ ~crashed
    /\ gcl[c].pc = "waiting"
    /\ gcl[c].resp # NoResp
    /\ gcl' = [gcl EXCEPT ![c] = IdleGet]
    /\ UNCHANGED <<dir, maxSegBytes, fs, now, panic, dbVars, chanVars, writerVars, reads, pcl,
                   adminVars, histVars, countVars, nfaults>>


\* ------------------------------------------------------------------
\* Db.backgroundWriter and Db.rotateSegment
\* ------------------------------------------------------------------

\* db.out.Name(): the path the active handle was opened with.
outName == activeFileName

\* segPointer{file: db.out.Name(), offset: pos}
WriterPointer(pos) == [file |-> outName, offset |-> pos]

\* if db.outOffset >= db.maxSegBytes
NeedsRotation(offset) == offset >= maxSegBytes

\* Bytes a failing Write leaves in the file: none, or the first cells of the record.
ShortWrites(data) == 0 .. (Len(data) - 1)

\* The index update made whatever Write returned.
AfterWrite_IndexAlways(err) == "index"

\* if err == nil { ... }: the index update is skipped when Write failed.
AfterWrite(err) == IF err = "nil" THEN "index" ELSE "reply"

\* A range loop that ends as soon as the channel is closed, buffered or not.
RangeEnds_AtClose(ch, open) == ~open

\* for req := range ch ends when ch is closed and its buffer is empty.
RangeEnds(ch, open) == ~open /\ ch = <<>>

\* A receive that takes the request sent last.
Receive_Last(ch) == [req |-> ch[Len(ch)], rest |-> SubSeq(ch, 1, Len(ch) - 1)]

\* A receive from a buffered channel takes the value sent first.
Receive(ch) == [req |-> Head(ch), rest |-> Tail(ch)]

\* for req := range db.writeCh: the next request, or the end of the loop once the
\* channel is closed and drained (defer db.wg.Done()).
WriterRecv ==
    /\ ~crashed
    /\ wpc = "recv"
    /\ IF RangeEnds(writeCh, writeChOpen)
       THEN /\ wpc' = "stopped"
            /\ UNCHANGED <<wreq, writeCh>>
       ELSE /\ writeCh # <<>>
            /\ wreq' = [client |-> Receive(writeCh).req.client, key |-> Receive(writeCh).req.key,
                        value |-> Receive(writeCh).req.value, pos |-> 0, n |-> 0, err |-> "nil"]
            /\ writeCh' = Receive(writeCh).rest
            /\ wpc' = "write"
    /\ UNCHANGED <<dir, maxSegBytes, fs, now, panic, dbVars, writeChOpen, getCh, getChOpen, reads, pcl, gcl,
                   adminVars, histVars, countVars, nfaults>>

\* pos := db.outOffset; n, err := db.out.Write(data)
WriterWrite ==
    /\ ~crashed
    /\ wpc = "write"
    /\ nwrites' = nwrites + 1
    /\ LET data == Encode(wreq.key, wreq.value) IN
       \E ok \in IOResults :
         /\ Fault(ok \/ ~outOpen)
         /\ IF ok /\ outOpen
            THEN /\ fs' = FsAppend(fs, outName, data, now + 1)
                 /\ wreq' = [wreq EXCEPT !.pos = outOffset, !.n = Len(data), !.err = "nil"]
                 /\ appended' = appended + Len(data)
                 /\ wpc' = AfterWrite("nil")
            ELSE /\ \E n \in (IF outOpen THEN ShortWrites(data) ELSE {0}) :
                      /\ fs' = FsAppend(fs, outName, SubSeq(data, 1, n), now + 1)
                      /\ wreq' = [wreq EXCEPT !.pos = outOffset, !.n = n, !.err = "EIO"]
                      /\ appended' = appended + n
                 /\ wpc' = AfterWrite("EIO")
    /\ now' = now + 1
    /\ UNCHANGED <<dir, maxSegBytes, panic, dbVars, chanVars, reads, pcl, gcl, adminVars, histVars, ncalls>>

\* if err == nil { db.indexMu.Lock(); db.index[req.key] = ...; db.outOffset += int64(n)
WriterIndex ==
    /\ ~crashed
    /\ wpc = "index"
    /\ CanLock(indexMu)
    /\ indexMu' = Lock(indexMu, "writer")
    /\ index' = (wreq.key :> WriterPointer(wreq.pos)) @@ index
    /\ outOffset' = outOffset + wreq.n
    /\ wpc' = "unlock"
    /\ UNCHANGED <<dir, maxSegBytes, fs, now, panic, outOpen, chanVars, wreq, reads, pcl, gcl,
                   adminVars, histVars, countVars, nfaults>>

\* db.indexMu.Unlock() }
WriterUnlock ==
    /\ ~crashed
    /\ wpc = "unlock"
    /\ indexMu' = Unlock(indexMu)
    /\ wpc' = "reply"
    /\ UNCHANGED <<dir, maxSegBytes, fs, now, panic, index, outOffset, outOpen, chanVars, wreq, reads,
                   pcl, gcl, adminVars, histVars, countVars, nfaults>>

\* req.done <- err, then the test that decides on a rotation.
WriterReply ==
    /\ ~crashed
    /\ wpc = "reply"
    /\ CanDeliver(DoneBuffered(wreq.client))
    /\ pcl' = [pcl EXCEPT ![wreq.client].done = wreq.err]
    /\ IF NeedsRotation(outOffset)
       THEN wpc' = "rot_sync" /\ UNCHANGED wreq
       ELSE wpc' = "recv" /\ wreq' = NoReq
    /\ UNCHANGED <<dir, maxSegBytes, fs, now, panic, dbVars, chanVars, reads, gcl,
                   adminVars, histVars, countVars, nfaults>>

\* rotateSegment returns (its error is dropped) and the loop goes on.
RotateDone(next) ==
    /\ wpc' = next
    /\ wreq' = IF next = "recv" THEN NoReq ELSE wreq

\* rotateSegment: db.out.Sync() and db.out.Close(). A failed Sync returns with the
\* handle still open; Close releases the handle whatever it returns.
RotateSyncClose ==
    /\ ~crashed
    /\ wpc = "rot_sync"
    /\ \E syncOk \in IOResults :
         IF syncOk /\ outOpen
         THEN \E closeOk \in IOResults :
                /\ Fault(closeOk)
                /\ outOpen' = FALSE
                /\ RotateDone(IF closeOk THEN "rot_rename" ELSE "recv")
         ELSE /\ Fault(~outOpen)
              /\ RotateDone("recv")
              /\ UNCHANGED outOpen
    /\ UNCHANGED <<dir, maxSegBytes, fs, now, panic, index, outOffset, indexMu, chanVars, reads, pcl, gcl,
                   adminVars, histVars, countVars>>

\* os.Rename(current-data, segment-<ts>.seg). Nothing in the index is touched.
RotateRename ==
    /\ ~crashed
    /\ wpc = "rot_rename"
    /\ \E ok \in IOResults :
         /\ Fault(ok)
         /\ IF ok
            THEN /\ fs' = FsRename(fs, activeFileName, SegmentName(now + 1))
                 /\ RotateDone("rot_open")
            ELSE /\ RotateDone("recv")
                 /\ UNCHANGED fs
    /\ now' = now + 1
    /\ UNCHANGED <<dir, maxSegBytes, panic, dbVars, chanVars, reads, pcl, gcl,
                   adminVars, histVars, countVars>>

\* f, err := os.OpenFile(current-data, O_CREATE|O_APPEND|O_RDWR); db.out = f;
\* db.outOffset = 0
RotateOpen ==
    /\ ~crashed
    /\ wpc = "rot_open"
    /\ \E ok \in IOResults :
         /\ Fault(ok)
         /\ IF ok
            THEN /\ fs' = FsCreate(fs, activeFileName, now + 1)
                 /\ outOpen' = TRUE
                 /\ outOffset' = 0
            ELSE UNCHANGED <<fs, outOpen, outOffset>>
    /\ RotateDone("recv")
    /\ now' = now + 1
    /\ UNCHANGED <<dir, maxSegBytes, panic, index, indexMu, chanVars, reads, pcl, gcl,
                   adminVars, histVars, countVars>>

\* ------------------------------------------------------------------
\* Db.backgroundReader (getWorkerCount of them)
\* ------------------------------------------------------------------

\* ptr, ok := db.index[req.key] under RLock
IndexHas(idx, key) == key \in DOMAIN idx

\* The zero segPointer.
NoPtr == [file |-> NoFile, offset |-> 0]

\* A worker receives the next request, takes the lock shared and looks the key up.
ReaderLookup ==
    /\ ~crashed
    /\ getCh # <<>>
    /\ Cardinality(reads) < getWorkerCount
    /\ CanRLock(indexMu)
    /\ LET req == Head(getCh) IN
       /\ getCh' = Tail(getCh)
       /\ indexMu' = RLock(indexMu, req.client)
       /\ reads' = reads \cup {[client |-> req.client, key |-> req.key,
                                 ok |-> IndexHas(index, req.key),
                                 ptr |-> IF IndexHas(index, req.key) THEN index[req.key] ELSE NoPtr,
                                 locked |-> TRUE]}
       /\ gcl' = [gcl EXCEPT ![req.client].held = (index # <<>>)]
    /\ UNCHANGED <<dir, maxSegBytes, fs, now, panic, index, outOffset, outOpen, writeCh, writeChOpen,
                   getChOpen, writerVars, pcl, adminVars, histVars, countVars, nfaults>>

\* db.indexMu.RUnlock(); without an entry the worker answers ErrNotFound at once.
ReaderUnlock ==
    /\ ~crashed
    /\ \E r \in reads :
         /\ r.locked
         /\ indexMu' = RUnlock(indexMu, r.client)
         /\ IF r.ok
            THEN /\ reads' = (reads \ {r}) \cup {[r EXCEPT !.locked = FALSE]}
                 /\ UNCHANGED gcl
            ELSE /\ CanDeliver(RespBuffered(r.client))
                 /\ reads' = reads \ {r}
                 /\ gcl' = [gcl EXCEPT ![r.client].resp = MissingResult]
    /\ UNCHANGED <<dir, maxSegBytes, fs, now, panic, index, outOffset, outOpen, chanVars, writerVars, pcl,
                   adminVars, histVars, countVars, nfaults>>

\* rec, err := db.readEntry(ptr), and the answer
ReaderRead ==
    /\ ~crashed
    /\ \E r \in reads :
         /\ ~r.locked
         /\ CanDeliver(RespBuffered(r.client))
         /\ reads' = reads \ {r}
         /\ LET rec == readEntry(fs, r.ptr) IN
            gcl' = [gcl EXCEPT ![r.client].resp =
                      IF rec.err = "nil" THEN [value |-> rec.value, err |-> "nil"]
                      ELSE [value |-> <<>>, err |-> rec.err]]
    /\ UNCHANGED <<dir, maxSegBytes, fs, now, panic, dbVars, chanVars, writerVars, pcl,
                   adminVars, histVars, countVars, nfaults>>

\* ------------------------------------------------------------------
\* Db.Compact
\* ------------------------------------------------------------------

\* The matches of filepath.Glob come sorted by name; the names differ in their
\* timestamp only.
RECURSIVE SortByName(_)
SortByName(S) ==
    IF S = {} THEN <<>>
    ELSE LET m == CHOOSE x \in S : \A y \in S : x[2] <= y[2] IN <<m>> \o SortByName(S \ {m})

\* Db.restartWriter: a fresh channel and a new backgroundWriter.
restartWriter ==
    /\ writeCh' = <<>>
    /\ writeChOpen' = TRUE
    /\ wpc' = "recv"

\* db.restartWriter(); return err
CompactFail ==
    /\ restartWriter
    /\ cres' = "err"
    /\ apc' = "c_done"

\* A snapshot loop that skips no entry.
CompactSkips_None(ptr) == FALSE

\* if p.file == db.out.Name() { continue }
CompactSkips(ptr) == ptr.file = outName

\* newPointers[item.key] = segPointer{file: tmpName, offset: offset}
CompactPointer(tmpName, offset) == [file |-> tmpName, offset |-> offset]

\* offset += int64(n)
CompactAdvance(offset, n) == offset + n

\* close(db.writeCh): closing a closed channel panics.
CompactClose ==
    /\ HasDb
    /\ apc = "idle"
    /\ ncalls < MaxCalls
    /\ ncalls' = ncalls + 1
    /\ IF writeChOpen
       THEN /\ writeChOpen' = FALSE
            /\ apc' = "c_wait"
            /\ cmp' = NoCmp
            /\ cres' = Pending
            /\ UNCHANGED panic
       ELSE /\ panic' = "Compact"
            /\ UNCHANGED <<writeChOpen, apc, cmp, cres>>
    /\ called' = called \cup {"compact"}
    /\ UNCHANGED <<dir, maxSegBytes, fs, now, dbVars, writeCh, getCh, getChOpen, writerVars, reads, pcl, gcl,
                   pre, latest, acked, putFailed, openedAt, nfaults, nwrites, appended>>

\* A Wait that returns at once.
WriterDone_NoWait == TRUE

\* db.wg.Wait() returns: backgroundWriter has left its loop (defer db.wg.Done()).
WriterDone == wpc = "stopped"

\* db.wg.Wait()
CompactWait ==
    /\ ~crashed
    /\ apc = "c_wait"
    /\ WriterDone
    /\ apc' = "c_glob"
    /\ pre' = [index |-> index, fs |-> fs, nwrites |-> nwrites]
    /\ UNCHANGED <<dir, maxSegBytes, fs, now, panic, dbVars, chanVars, writerVars, reads, pcl, gcl,
                   cmp, cres, histVars, countVars, nfaults>>

\* segs, err := filepath.Glob(...): on an error Compact returns it at once; with
\* no closed segment it restarts the writer and returns nil.
CompactGlob ==
    /\ ~crashed
    /\ apc = "c_glob"
    /\ IF BadPattern(dir)
       THEN /\ cres' = "err"
            /\ apc' = "c_done"
            /\ cmp' = [cmp EXCEPT !.failed = TRUE]
            /\ UNCHANGED <<writeCh, writeChOpen, wpc>>
       ELSE IF GlobClosed(fs) = {}
       THEN /\ restartWriter
            /\ cres' = "nil"
            /\ apc' = "c_done"
            /\ UNCHANGED cmp
       ELSE /\ cmp' = [cmp EXCEPT !.segs = SortByName(GlobClosed(fs))]
            /\ apc' = "c_tmp"
            /\ UNCHANGED <<writeCh, writeChOpen, wpc, cres>>
    /\ UNCHANGED <<dir, maxSegBytes, fs, now, panic, dbVars, getCh, getChOpen, wreq, reads, pcl, gcl,
                   pre, histVars, countVars, nfaults>>

\* tmp, err := os.OpenFile(compact-<ts>.seg, O_CREATE|O_RDWR|O_TRUNC)
CompactCreateTmp ==
    /\ ~crashed
    /\ apc = "c_tmp"
    /\ \E ok \in IOResults :
         /\ Fault(ok)
         /\ IF ok
            THEN /\ fs' = FsTruncate(fs, TmpName(now + 1), now + 1)
                 /\ cmp' = [cmp EXCEPT !.tmpName = TmpName(now + 1)]
                 /\ apc' = "c_snap"
                 /\ UNCHANGED <<writeCh, writeChOpen, wpc, cres>>
            ELSE /\ CompactFail
                 /\ cmp' = [cmp EXCEPT !.failed = TRUE]
                 /\ UNCHANGED fs
    /\ now' = now + 1
    /\ UNCHANGED <<dir, maxSegBytes, panic, dbVars, getCh, getChOpen, wreq, reads, pcl, gcl,
                   pre, histVars, countVars>>

\* db.indexMu.RLock(); latest = the index entries that do not name the active file.
CompactSnapshot ==
    /\ ~crashed
    /\ apc = "c_snap"
    /\ CanRLock(indexMu)
    /\ indexMu' = RLock(indexMu, "compact")
    /\ cmp' = [cmp EXCEPT !.todo = {[key |-> k, ptr |-> index[k]] :
                                      k \in {x \in DOMAIN index : ~CompactSkips(index[x])}}]
    /\ apc' = "c_snapped"
    /\ UNCHANGED <<dir, maxSegBytes, fs, now, panic, index, outOffset, outOpen, chanVars, writerVars,
                   reads, pcl, gcl, cres, pre, histVars, countVars, nfaults>>

\* db.indexMu.RUnlock()
CompactRUnlock ==
    /\ ~crashed
    /\ apc = "c_snapped"
    /\ indexMu' = RUnlock(indexMu, "compact")
    /\ apc' = "c_merge"
    /\ UNCHANGED <<dir, maxSegBytes, fs, now, panic, index, outOffset, outOpen, chanVars, writerVars,
                   reads, pcl, gcl, cmp, cres, pre, histVars, countVars, nfaults>>

\* One turn of the loop over latest (a map is ranged over in any order):
\* readEntry, tmp.Write(rec.Encode()), newPointers, offset.
CompactMerge ==
    /\ ~crashed
    /\ apc = "c_merge"
    /\ \E item \in cmp.todo :
         LET rec == readEntry(fs, item.ptr)
             data == Encode(rec.key, rec.value) IN
         \E readOk \in IOResults :
           IF ~readOk \/ rec.err # "nil"
           THEN /\ Fault(readOk)
                /\ CompactFail
                /\ cmp' = [cmp EXCEPT !.failed = TRUE]
                /\ UNCHANGED fs
           ELSE \E writeOk \in IOResults :
                  /\ Fault(writeOk)
                  /\ IF writeOk
                     THEN /\ fs' = FsAppend(fs, cmp.tmpName, data, now + 1)
                          /\ cmp' = [cmp EXCEPT
                                       !.todo = @ \ {item},
                                       !.newPointers = (item.key :> CompactPointer(cmp.tmpName, cmp.offset)) @@ @,
                                       !.offset = CompactAdvance(@, Len(data))]
                          /\ UNCHANGED <<writeCh, writeChOpen, wpc, cres, apc>>
                     ELSE /\ \E n \in ShortWrites(data) :
                               fs' = FsAppend(fs, cmp.tmpName, SubSeq(data, 1, n), now + 1)
                          /\ CompactFail
                          /\ cmp' = [cmp EXCEPT !.failed = TRUE]
    /\ now' = now + 1
    /\ UNCHANGED <<dir, maxSegBytes, panic, dbVars, getCh, getChOpen, wreq, reads, pcl, gcl,
                   pre, histVars, countVars>>

\* tmp.Sync(); tmp.Close(): what they return is dropped.
CompactSyncClose ==
    /\ ~crashed
    /\ apc = "c_merge"
    /\ cmp.todo = {}
    /\ \E ok \in IOResults :
         /\ Fault(ok)
         /\ cmp' = [cmp EXCEPT !.failed = @ \/ ~ok]
    /\ apc' = "c_rename"
    /\ UNCHANGED <<dir, maxSegBytes, fs, now, panic, dbVars, chanVars, writerVars, reads, pcl, gcl,
                   cres, pre, histVars, countVars>>

\* os.Rename(tmpName, segment-<ts>-merged.seg)
CompactRename ==
    /\ ~crashed
    /\ apc = "c_rename"
    /\ \E ok \in IOResults :
         /\ Fault(ok)
         /\ IF ok
            THEN /\ fs' = FsRename(fs, cmp.tmpName, MergedName(now + 1))
                 /\ apc' = "c_index"
                 /\ UNCHANGED <<writeCh, writeChOpen, wpc, cres, cmp>>
            ELSE /\ CompactFail
                 /\ cmp' = [cmp EXCEPT !.failed = TRUE]
                 /\ UNCHANGED fs
    /\ now' = now + 1
    /\ UNCHANGED <<dir, maxSegBytes, panic, dbVars, getCh, getChOpen, wreq, reads, pcl, gcl,
                   pre, histVars, countVars>>

\* db.indexMu.Lock(); for k, p := range newPointers { db.index[k] = p }
CompactIndex ==
    /\ ~crashed
    /\ apc = "c_index"
    /\ CanLock(indexMu)
    /\ indexMu' = Lock(indexMu, "compact")
    /\ index' = cmp.newPointers @@ index
    /\ apc' = "c_unlock"
    /\ UNCHANGED <<dir, maxSegBytes, fs, now, panic, outOffset, outOpen, chanVars, writerVars, reads, pcl, gcl,
                   cmp, cres, pre, histVars, countVars, nfaults>>

\* db.indexMu.Unlock()
CompactUnlock ==
    /\ ~crashed
    /\ apc = "c_unlock"
    /\ indexMu' = Unlock(indexMu)
    /\ apc' = "c_remove"
    /\ UNCHANGED <<dir, maxSegBytes, fs, now, panic, index, outOffset, outOpen, chanVars, writerVars,
                   reads, pcl, gcl, cmp, cres, pre, histVars, countVars, nfaults>>

\* _ = os.Remove(old), for one old segment
CompactRemove ==
    /\ ~crashed
    /\ apc = "c_remove"
    /\ cmp.segs # <<>>
    /\ \E ok \in IOResults :
         /\ Fault(ok)
         /\ fs' = IF ok THEN FsRemove(fs, Head(cmp.segs)) ELSE fs
    /\ cmp' = [cmp EXCEPT !.segs = Tail(@)]
    /\ UNCHANGED <<dir, maxSegBytes, now, panic, dbVars, chanVars, writerVars, reads, pcl, gcl,
                   apc, cres, pre, histVars, countVars>>

\* db.restartWriter(); return nil
CompactRestart ==
    /\ ~crashed
    /\ apc = "c_remove"
    /\ cmp.segs = <<>>
    /\ restartWriter
    /\ cres' = "nil"
    /\ apc' = "c_done"
    /\ UNCHANGED <<dir, maxSegBytes, fs, now, panic, dbVars, getCh, getChOpen, wreq, reads, pcl, gcl,
                   cmp, pre, histVars, countVars, nfaults>>

\* The caller of Compact goes on.
CompactReturn ==
    /\ ~crashed
    /\ apc = "c_done"
    /\ apc' = "idle"
    /\ cmp' = NoCmp
    /\ pre' = NoPre
    /\ UNCHANGED <<dir, maxSegBytes, fs, now, panic, dbVars, chanVars, writerVars, reads, pcl, gcl,
                   cres, histVars, countVars, nfaults>>

\* ------------------------------------------------------------------
\* Db.Close
\* ------------------------------------------------------------------

\* close(db.writeCh)
CloseWrite ==
    /\ HasDb
    /\ apc = "idle"
    /\ ncalls < MaxCalls
    /\ ncalls' = ncalls + 1
    /\ IF writeChOpen
       THEN /\ writeChOpen' = FALSE
            /\ apc' = "cl_wait"
            /\ pre' = [NoPre EXCEPT !.nwrites = nwrites]
            /\ UNCHANGED panic
       ELSE /\ panic' = "Close"
            /\ UNCHANGED <<writeChOpen, apc, pre>>
    /\ called' = called \cup {"close"}
    /\ UNCHANGED <<dir, maxSegBytes, fs, now, dbVars, writeCh, getCh, getChOpen, writerVars, reads, pcl, gcl,
                   cmp, cres, latest, acked, putFailed, openedAt, nwrites, appended, nfaults>>

\* db.wg.Wait(); close(db.getCh)
CloseGet ==
    /\ ~crashed
    /\ apc = "cl_wait"
    /\ WriterDone
    /\ getChOpen' = FALSE
    /\ apc' = "cl_get"
    /\ UNCHANGED <<dir, maxSegBytes, fs, now, panic, dbVars, writeCh, writeChOpen, getCh, writerVars, reads,
                   pcl, gcl, cmp, cres, pre, histVars, countVars, nfaults>>

\* db.getWg.Wait(); return db.out.Close()
CloseOut ==
    /\ ~crashed
    /\ apc = "cl_get"
    /\ getCh = <<>>
    /\ reads = {}
    /\ outOpen' = FALSE
    /\ apc' = "closed"
    /\ UNCHANGED <<dir, maxSegBytes, fs, now, panic, index, outOffset, indexMu, chanVars, writerVars, reads,
                   pcl, gcl, cmp, cres, pre, histVars, countVars, nfaults>>

\* ------------------------------------------------------------------
\* Open: Db.recoverAll and Db.recoverFile
\* ------------------------------------------------------------------

\* An end of stream that is taken for a clean one whatever was consumed.
PartialRecord_Never(n) == FALSE

\* if errors.Is(err, io.EOF) { if n != 0 { return corrupted } ... }
PartialRecord(n) == n # 0

\* recoverFile's loop over the entries of one file, from offset on.
RECURSIVE recoverFile(_, _, _, _)
recoverFile(data, path, offset, idx) ==
    LET d == DecodeFromReader(BytesFrom(data, offset)) IN
    IF d.err = "EOF"
    THEN IF PartialRecord(d.n)
         THEN [err |-> "corrupted segment", index |-> idx, offset |-> offset]
         ELSE [err |-> "nil", index |-> idx, offset |-> offset]
    ELSE IF d.err # "nil"
    THEN [err |-> d.err, index |-> idx, offset |-> offset]
    ELSE recoverFile(data, path, offset + d.n,
                     (d.key :> [file |-> path, offset |-> offset]) @@ idx)

\* The files recoverAll collects: Glob's errors are dropped with its matches.
RecoveryFiles(f, d) ==
    IF BadPattern(d) THEN {} ELSE GlobClosed(f) \cup ({activeFileName} \cap DOMAIN f)

\* sort.Slice by ModTime().Before: the orders it can produce.
RecoveryOrders(f, d) ==
    LET S == RecoveryFiles(f, d)
        n == Cardinality(S) IN
    {o \in [1 .. n -> S] :
        /\ \A i, j \in 1 .. n : i # j => o[i] # o[j]
        /\ \A i, j \in 1 .. n : i < j => ~(f[o[j]].mtime < f[o[i]].mtime)}

\* for _, path := range files { recoverFile(path) }; db.outOffset is set by the
\* active file only.
RECURSIVE recoverAll(_, _, _, _, _)
recoverAll(f, order, i, idx, off) ==
    IF i > Len(order) THEN [err |-> "nil", index |-> idx, outOffset |-> off]
    ELSE LET r == recoverFile(f[order[i]].data, order[i], 0, idx) IN
         IF r.err # "nil" THEN [err |-> r.err, index |-> idx, outOffset |-> off]
         ELSE recoverAll(f, order, i + 1, r.index,
                         IF order[i] = activeFileName THEN r.offset ELSE off)

\* Open(dir) on the directory a closed store left.
Open ==
    /\ ~crashed
    /\ apc = "closed"
    /\ now' = now + 1
    /\ fs' = FsCreate(fs, activeFileName, now + 1)
    /\ \E order \in RecoveryOrders(fs', dir) :
         LET r == recoverAll(fs', order, 1, <<>>, 0) IN
         IF r.err = "nil"
         THEN /\ index' = r.index
              /\ outOffset' = r.outOffset
              /\ outOpen' = TRUE
              /\ indexMu' = Unlocked
              /\ writeCh' = <<>> /\ writeChOpen' = TRUE
              /\ getCh' = <<>> /\ getChOpen' = TRUE
              /\ wpc' = "recv"
              /\ apc' = "idle"
         ELSE /\ apc' = "openFailed"
              /\ UNCHANGED <<dbVars, chanVars, wpc>>
    /\ openedAt' = ncalls
    /\ pre' = NoPre
    /\ UNCHANGED <<dir, maxSegBytes, panic, wreq, reads, pcl, gcl, cmp, cres, latest, acked, putFailed,
                   called, ncalls, nfaults, nwrites, appended>>

\* ------------------------------------------------------------------
\* The store and its callers
\* ------------------------------------------------------------------

Next ==
    \/ \E c \in PutClients, k \in Keys, v \in Values : PutSend(c, k, v)
    \/ \E c \in PutClients : PutReturn(c)
    \/ \E c \in GetClients, k \in Keys : GetSend(c, k)
    \/ \E c \in GetClients : GetReturn(c)
    \/ WriterRecv
    \/ WriterWrite
    \/ WriterIndex
    \/ WriterUnlock
    \/ WriterReply
    \/ RotateSyncClose
    \/ RotateRename
    \/ RotateOpen
    \/ ReaderLookup
    \/ ReaderUnlock
    \/ ReaderRead
    \/ CompactClose
    \/ CompactWait
    \/ CompactGlob
    \/ CompactCreateTmp
    \/ CompactSnapshot
    \/ CompactRUnlock
    \/ CompactMerge
    \/ CompactSyncClose
    \/ CompactRename
    \/ CompactIndex
    \/ CompactUnlock
    \/ CompactRemove
    \/ CompactRestart
    \/ CompactReturn
    \/ CloseWrite
    \/ CloseGet
    \/ CloseOut
    \/ Open

Spec == Init /\ [][Next]_vars

\* Two callers of Put at once, to fill the write queue: the store in a plain
\* directory with its writer, and no other call.
FifoClients == {"p1", "p2"}

InitFifo ==
    /\ dir = "db"
    /\ maxSegBytes \in SegSizes
    /\ fs = (activeFileName :> [data |-> <<>>, mtime |-> 0])
    /\ now = 0
    /\ panic = ""
    /\ index = <<>>
    /\ outOffset = 0
    /\ outOpen = TRUE
    /\ indexMu = Unlocked
    /\ writeCh = <<>>
    /\ writeChOpen = TRUE
    /\ wpc = "recv"
    /\ wreq = NoReq
    /\ getCh = <<>>
    /\ getChOpen = TRUE
    /\ reads = {}
    /\ pcl = [c \in FifoClients |-> IdlePut]
    /\ gcl = [c \in GetClients |-> IdleGet]
    /\ apc = "idle"
    /\ cmp = NoCmp
    /\ cres = Pending
    /\ pre = NoPre
    /\ latest = [k \in Keys |-> None]
    /\ acked = [k \in Keys |-> None]
    /\ putFailed = FALSE
    /\ called = {}
    /\ openedAt = 0
    /\ ncalls = 0 /\ nfaults = 0 /\ nwrites = 0 /\ appended = 0

NextFifo ==
    \/ \E c \in FifoClients, k \in Keys, v \in Values : PutSend(c, k, v)
    \/ \E c \in FifoClients : PutReturn(c)
    \/ WriterRecv
    \/ WriterWrite
    \/ WriterIndex
    \/ WriterUnlock
    \/ WriterReply
    \/ RotateSyncClose
    \/ RotateRename
    \/ RotateOpen

SpecFifo == InitFifo /\ [][NextFifo]_vars

\* The store open in a plain directory with its writer and its read pool
\* running: callers of Put and Get, and no Compact or Close. The maximum is the
\* one the larger record reaches at once, so that replies are followed by rotations.
InitServe == Init /\ dir = "db" /\ maxSegBytes = MaxSegBytes

\* The steps of the goroutine backgroundWriter (rotateSegment runs in it).
WriterNext ==
    \/ WriterRecv
    \/ WriterWrite
    \/ WriterIndex
    \/ WriterUnlock
    \/ WriterReply
    \/ RotateSyncClose
    \/ RotateRename
    \/ RotateOpen

\* The steps of the goroutines backgroundReader.
ReaderNext ==
    \/ ReaderLookup
    \/ ReaderUnlock
    \/ ReaderRead

\* The steps of the callers: each may stop for good at any point.
CallerNext ==
    \/ \E c \in PutClients, k \in Keys, v \in Values : PutSend(c, k, v)
    \/ \E c \in PutClients : PutReturn(c)
    \/ \E c \in GetClients, k \in Keys : GetSend(c, k)
    \/ \E c \in GetClients : GetReturn(c)

NextServe == CallerNext \/ WriterNext \/ ReaderNext

\* The Go scheduler runs a goroutine that can take a step; nothing is assumed
\* of the callers.
SpecServe == InitServe /\ [][NextServe]_vars /\ WF_vars(WriterNext) /\ WF_vars(ReaderNext)


\* ------------------------------------------------------------------
\* Properties
\* ------------------------------------------------------------------

\* Every Put has returned and the writer waits for the next request.
WriterIdle ==
    /\ ~crashed
    /\ apc = "idle"
    /\ wpc = "recv"
    /\ writeCh = <<>>
    /\ \A c \in PutClients : pcl[c].pc = "idle"

\* Only Put and Get were called, every Put returned nil and no I/O call failed.
PutsOnly == called = {} /\ ~putFailed /\ nfaults = 0

\* C1: last write wins. Once all Puts of a run of successful Puts have returned
\* and the writer is idle, Get(k) returns, without error, the value of the Put
\* submitted last for k, for every key that was Put, rotations included.
C1_LastWriteWins ==
    (WriterIdle /\ PutsOnly) =>
        \A k \in Keys :
            latest[k] # None => GetResult(index, fs, k) = [value |-> latest[k], err |-> "nil"]

\* C2: read your writes. A Get(k) started after a Put(k, v) returned nil is
\* answered with v or with the value of a later Put for k: never with an error,
\* never with another value, also around a rotation.
C2_ReadYourWrites ==
    PutsOnly =>
        \A g \in GetClients :
            (gcl[g].must /\ gcl[g].resp # NoResp) =>
                /\ gcl[g].resp.err = "nil"
                /\ gcl[g].resp.value \in gcl[g].allowed


\* The entries a replay of data from offset on decodes, as <<key, value>>.
RECURSIVE EntriesOf(_, _)
EntriesOf(data, offset) ==
    LET d == DecodeFromReader(BytesFrom(data, offset)) IN
    IF d.err # "nil" THEN {} ELSE {<<d.key, d.value>>} \cup EntriesOf(data, offset + d.n)

\* Where the latest entry of each key is stored in the files f: what a replay
\* of all segments in ascending modification time finds.
ReplayIndex(f) ==
    recoverAll(f, CHOOSE o \in RecoveryOrders(f, "db") : TRUE, 1, <<>>, 0).index

\* Compact has returned, no Put is in flight and none was applied since.
QuietSinceCompact ==
    /\ ~crashed
    /\ apc = "c_done"
    /\ nwrites = pre.nwrites
    /\ \A c \in PutClients : pcl[c].pc = "idle"

\* C3: Compact never loses data. After a successful Compact every key whose
\* latest entry was in a closed segment before the call has that entry in the
\* merged segment with Index[key] pointing at it, and the latest value of every
\* key Put so far is still in some file on disk.
C3_CompactKeepsData ==
    (QuietSinceCompact /\ cres = "nil" /\ nfaults = 0) =>
        /\ \A k \in DOMAIN ReplayIndex(pre.fs) :
              ReplayIndex(pre.fs)[k].file # activeFileName =>
                 /\ k \in DOMAIN index
                 /\ index[k].file \in DOMAIN fs
                 /\ index[k].file[1] = "segment-merged"
                 /\ readEntry(fs, index[k]) = readEntry(pre.fs, ReplayIndex(pre.fs)[k])
        /\ \A k \in Keys :
              latest[k] # None =>
                 \E name \in DOMAIN fs : <<k, latest[k]>> \in EntriesOf(fs[name].data, 0)

\* Open has returned the store after a Close, nothing was called since and
\* every Put called before the Close had returned.
JustOpened ==
    /\ ~crashed
    /\ apc = "idle"
    /\ "close" \in called
    /\ ncalls = openedAt
    /\ \A c \in PutClients : pcl[c].pc = "idle"

\* C4: recovery round trip. After successful Puts (with rotations and successful
\* Compacts), Close followed by Open yields a store where Get(k) returns the
\* latest Put of every key and NotFound for a key never Put.
C4_RecoveryRoundTrip ==
    (JustOpened /\ dir = "db" /\ nfaults = 0 /\ ~putFailed /\ cres # "err") =>
        \A k \in Keys :
            GetResult(index, fs, k) =
                IF latest[k] = None THEN [value |-> <<>>, err |-> "ErrNotFound"]
                ELSE [value |-> latest[k], err |-> "nil"]

\* C5: Compact preserves reads. For every key in the Index before Compact,
\* Get(key) after a successful Compact returns what it returned before.
C5_CompactPreservesReads ==
    (QuietSinceCompact /\ cres = "nil") =>
        \A k \in DOMAIN pre.index :
            GetResult(index, fs, k) = GetResult(pre.index, pre.fs, k)

\* Compact is between pausing the writer and resuming it.
Compacting == apc \in {"c_wait", "c_glob", "c_tmp", "c_snap", "c_snapped", "c_merge", "c_rename", "c_index", "c_unlock", "c_remove"}

\* C6: a Put issued while Compact runs is delayed and applied afterwards; it is
\* never dropped, never fails because of the pause and never crashes the process.
C6_PutDuringCompactIsSafe == ~(Compacting /\ panic = "Put")

\* C7: whatever way Compact returns, a writer runs on an open request queue.
C7_CompactResumesWriter ==
    (~crashed /\ apc = "c_done") => (writeChOpen /\ wpc # "stopped")

\* The closed segments of the files f with their contents.
ClosedSegments(f) == [name \in GlobClosed(f) |-> f[name].data]

\* C8: Compact is all-or-nothing. If a step of the merge fails, Compact returns
\* the error, the closed segments are what they were and the Index is unchanged.
C8_CompactAllOrNothing ==
    (QuietSinceCompact /\ cmp.failed) =>
        /\ cres = "err"
        /\ ClosedSegments(fs) = ClosedSegments(pre.fs)
        /\ index = pre.index

\* C9: a Get of a key that was never Put is answered ErrNotFound, in every
\* state: after Puts of other keys, rotations, Compacts and a reopen.
C9_NeverPutIsNotFound ==
    \A g \in GetClients :
        (gcl[g].resp # NoResp /\ latest[gcl[g].key] = None) =>
            (gcl[g].resp.err = "ErrNotFound" /\ gcl[g].resp.value = <<>>)

\* A Get of a key never Put was answered ErrNotFound by a store that held
\* another key when this one was looked up, in a run with a reopen and a
\* Compact that merged segments.
C9_Witness ==
    \E g \in GetClients :
        /\ gcl[g].resp.err = "ErrNotFound"
        /\ latest[gcl[g].key] = None
        /\ gcl[g].held
        /\ called = {"compact", "close"}
        /\ openedAt > 0
        /\ cres = "nil"
        /\ \E name \in DOMAIN fs : name[1] = "segment-merged"

\* C10: a Put does not return before the writer is done with it, the rotation
\* it triggers included: once Put has returned and its append brought the offset
\* to the maximum, the old active file is renamed and a fresh one is in place.
C10_PutReturnsAfterRotation ==
    \A c \in PutClients :
        (nfaults = 0 /\ pcl[c].pc = "idle" /\ wreq.client = c) =>
            wpc \notin {"rot_sync", "rot_rename", "rot_open"}

\* C11: rotation keeps the active segment bounded. With every Put processed and
\* no failed I/O call, the active file holds at most maxSegBytes bytes, and once
\* the bytes appended since Open on the empty directory reached maxSegBytes a
\* closed segment file exists.
C11_RotationBoundsActive ==
    (WriterIdle /\ nfaults = 0) =>
        /\ Len(fs[activeFileName].data) <= maxSegBytes
        /\ appended >= maxSegBytes => GlobClosed(fs) # {}

\* C12: a failed Put leaves the Index alone. From the moment the writer holds a
\* request until it has answered it, no step changes the Index unless Write
\* returned nil, and the answer to a failed Write is its error.
C12_FailedPutLeavesIndex ==
    [][/\ (wpc = "write" \/ wreq.err # "nil") => index' = index
       /\ (wpc = "reply" /\ wpc' # "reply" /\ wreq.err # "nil") =>
              pcl'[wreq.client].done = wreq.err]_vars

\* A Put for a key that is in the Index has returned the error of its Write (a
\* short write that left bytes in the active file) and the key still resolves to
\* the value of the earlier Put.
C12_Witness ==
    \E c \in PutClients :
        /\ pcl[c].pc = "waiting"
        /\ pcl[c].done = "EIO"
        /\ pcl[c].key \in DOMAIN index
        /\ acked[pcl[c].key] # None
        /\ pcl[c].value # acked[pcl[c].key]
        /\ GetResult(index, fs, pcl[c].key) = [value |-> acked[pcl[c].key], err |-> "nil"]
        /\ Len(fs[activeFileName].data) > outOffset

\* The writer is inside rotateSegment.
Rotating == wpc \in {"rot_sync", "rot_rename", "rot_open"}

\* C13: a rotation failure is reported on the Put that triggered the rotation.
\* When a step of rotateSegment fails, the answer of that Put (the err sent on
\* req.done) is not nil, and the record it appended is still decoded from the
\* file it was written to.
C13_RotationFailureReported ==
    [][(Rotating /\ wpc' = "recv" /\ nfaults' > nfaults) =>
          /\ wreq.err # "nil"
          /\ \E name \in DOMAIN fs' :
                <<wreq.key, wreq.value>> \in EntriesOf(fs'[name].data, 0)]_vars

\* C14: Close drains before releasing. When Close has closed the active file's
\* handle, the write queue and the read queue are empty, the writer has ended
\* and no read is pending, so that nothing is processed afterwards; every Put
\* and Get enqueued before is answered, and (no I/O call having failed, no
\* Compact and no earlier Close having run) the latest Put of every key is on
\* disk and indexed.
C14_CloseDrains ==
    (~crashed /\ apc = "closed") =>
        /\ ~outOpen
        /\ writeCh = <<>> /\ wpc = "stopped" /\ wreq = NoReq
        /\ getCh = <<>> /\ reads = {}
        /\ \A c \in PutClients : pcl[c].pc = "waiting" => pcl[c].done # Pending
        /\ \A g \in GetClients : gcl[g].pc = "waiting" => gcl[g].resp # NoResp
        /\ (nfaults = 0 /\ called = {"close"} /\ openedAt = 0) =>
              \A k \in Keys :
                  latest[k] # None =>
                     /\ k \in DOMAIN index
                     /\ \E name \in DOMAIN fs : <<k, latest[k]>> \in EntriesOf(fs[name].data, 0)

\* Close has closed the handle after the writer applied a Put that was enqueued
\* and not yet written when Close closed the write queue; that Put and a Get
\* are answered.
C14_Witness ==
    /\ apc = "closed"
    /\ nfaults = 0 /\ called = {"close"} /\ openedAt = 0
    /\ ~outOpen
    /\ nwrites > pre.nwrites
    /\ \E c \in PutClients : pcl[c].pc = "waiting" /\ pcl[c].done = "nil"
    /\ \E g \in GetClients : gcl[g].pc = "waiting" /\ gcl[g].resp # NoResp

\* The keys of the entries a replay of data from offset on decodes, in order.
RECURSIVE KeysOf(_, _)
KeysOf(data, offset) ==
    LET d == DecodeFromReader(BytesFrom(data, offset)) IN
    IF d.err # "nil" THEN <<>> ELSE <<d.key>> \o KeysOf(data, offset + d.n)

\* How many entries for key the files named in names hold.
RECURSIVE CountEntries(_, _, _)
CountEntries(f, names, key) ==
    IF names = {} THEN 0
    ELSE LET name == CHOOSE x \in names : TRUE
             ks == KeysOf(f[name].data, 0) IN
         Cardinality({i \in DOMAIN ks : ks[i] = key}) + CountEntries(f, names \ {name}, key)

\* directorySize: the sum of the sizes of the files named in names.
RECURSIVE DirectorySize(_, _)
DirectorySize(f, names) ==
    IF names = {} THEN 0
    ELSE LET name == CHOOSE x \in names : TRUE IN
         Len(f[name].data) + DirectorySize(f, names \ {name})

\* C15 as stated: if before Compact some key has more than one entry on disk,
\* the directory is strictly smaller after a successful Compact.
C15_CompactShrinks ==
    (QuietSinceCompact /\ cres = "nil" /\ nfaults = 0
       /\ \E k \in Keys : CountEntries(pre.fs, DOMAIN pre.fs, k) > 1) =>
        DirectorySize(fs, DOMAIN fs) < DirectorySize(pre.fs, DOMAIN pre.fs)

\* Before Compact some key had an entry in a closed segment and more than one
\* entry on disk.
SupersededInClosed ==
    \E k \in Keys :
        /\ CountEntries(pre.fs, GlobClosed(pre.fs), k) > 0
        /\ CountEntries(pre.fs, DOMAIN pre.fs, k) > 1

\* C15, amended: if before Compact some key has an entry in a closed segment
\* and more than one entry on disk, the directory is strictly smaller after a
\* successful Compact in which no I/O call failed.
C15_CompactShrinksClosed ==
    (QuietSinceCompact /\ cres = "nil" /\ nfaults = 0 /\ SupersededInClosed) =>
        DirectorySize(fs, DOMAIN fs) < DirectorySize(pre.fs, DOMAIN pre.fs)

\* A successful Compact found a superseded entry in a closed segment, wrote a
\* merged segment that is not empty and left a smaller directory.
C15_Witness ==
    /\ QuietSinceCompact /\ cres = "nil" /\ nfaults = 0
    /\ SupersededInClosed
    /\ \E name \in DOMAIN fs : name[1] = "segment-merged" /\ fs[name].data # <<>>
    /\ DirectorySize(fs, DOMAIN fs) < DirectorySize(pre.fs, DOMAIN pre.fs)

\* Decoding data record by record from offset on ends with an end of stream
\* inside a record: some bytes of it were consumed.
RECURSIVE EndsInPartial(_, _)
EndsInPartial(data, offset) ==
    LET d == DecodeFromReader(BytesFrom(data, offset)) IN
    IF d.err = "nil" THEN EndsInPartial(data, offset + d.n)
    ELSE d.err = "EOF" /\ d.n > 0

\* Decoding data record by record from offset on ends with a clean end of
\* stream: no byte consumed after the last whole record.
RECURSIVE EndsClean(_, _)
EndsClean(data, offset) ==
    LET d == DecodeFromReader(BytesFrom(data, offset)) IN
    IF d.err = "nil" THEN EndsClean(data, offset + d.n)
    ELSE d.err = "EOF" /\ d.n = 0

\* Open has just returned: a store, or an error and no store.
OpenReturnedStore == ~crashed /\ apc = "idle" /\ "close" \in called /\ ncalls = openedAt
OpenReturnedError == ~crashed /\ apc = "openFailed"

\* C16: recovery treats a trailing partial record as corruption. Open returns a
\* store only if no replayed file ends inside a record, and it fails only if
\* some replayed file does not end with a clean end of stream.
C16_PartialRecordFailsOpen ==
    /\ OpenReturnedStore =>
          \A name \in RecoveryFiles(fs, dir) : ~EndsInPartial(fs[name].data, 0)
    /\ OpenReturnedError =>
          \E name \in RecoveryFiles(fs, dir) : ~EndsClean(fs[name].data, 0)

\* Open failed on a replayed file that holds a whole record followed by the
\* first bytes of another.
C16_Witness ==
    /\ OpenReturnedError
    /\ \E name \in RecoveryFiles(fs, dir) :
          /\ EndsInPartial(fs[name].data, 0)
          /\ KeysOf(fs[name].data, 0) # <<>>

\* Index[key] designates the start of an encoded entry for key in a file that
\* exists.
PointsAtEntry(idx, f, key) ==
    /\ idx[key].file \in DOMAIN f
    /\ readEntry(f, idx[key]).err = "nil"
    /\ readEntry(f, idx[key]).key = key

\* C17: rotation re-targets the Index in the step that renames the active file.
\* With only Puts and Gets called and no failed I/O call, in every state, the
\* one right after the rename included, each Index[key] points at the start of
\* an entry for key in a file that exists.
C17_RotationRetargetsIndex ==
    (~crashed /\ called = {} /\ nfaults = 0) =>
        \A k \in DOMAIN index : PointsAtEntry(index, fs, k)

\* Compact has paused the writer and not yet restarted it.
WriterPaused ==
    apc \in {"c_glob", "c_tmp", "c_snap", "c_snapped", "c_merge", "c_rename", "c_index", "c_unlock", "c_remove"}

\* C18: Gets are unaffected by a concurrent Compact. A Get of a key that a Put
\* had set before the Get was called and that resolved to an entry of its own
\* when Compact paused the writer, answered while Compact runs with no I/O call
\* failing, returns without error the value of a Put not older than the last
\* one returned before the call.
C18_GetsUnaffectedByCompact ==
    [][\A g \in GetClients :
          (/\ WriterPaused /\ nfaults' = 0
           /\ gcl[g].resp = NoResp /\ gcl'[g].resp # NoResp
           /\ gcl[g].must
           /\ gcl[g].key \in DOMAIN pre.index
           /\ PointsAtEntry(pre.index, pre.fs, gcl[g].key)) =>
              /\ gcl'[g].resp.err = "nil"
              /\ gcl'[g].resp.value \in gcl[g].allowed]_vars

\* The entries on disk in the order they were appended: the closed segments in
\* the order of their timestamps, then the active file. Each entry with the
\* offset it has in its file.
RECURSIVE FileEntries(_, _)
FileEntries(data, offset) ==
    LET d == DecodeFromReader(BytesFrom(data, offset)) IN
    IF d.err # "nil" THEN <<>>
    ELSE <<[key |-> d.key, value |-> d.value, offset |-> offset]>>
            \o FileEntries(data, offset + d.n)

RECURSIVE EntriesInOrder(_, _)
EntriesInOrder(f, names) ==
    IF names = <<>> THEN <<>>
    ELSE FileEntries(f[Head(names)].data, 0) \o EntriesInOrder(f, Tail(names))

AppendOrder(f) ==
    EntriesInOrder(f, SortByName(GlobClosed(f))
                        \o (IF activeFileName \in DOMAIN f THEN <<activeFileName>> ELSE <<>>))

\* The entry for key that was appended last.
LastEntry(f, key) ==
    LET es == AppendOrder(f)
        at == {i \in DOMAIN es : es[i].key = key} IN
    es[CHOOSE i \in at : \A j \in at : j <= i]

\* C19: Puts are applied in submission order. The writer takes the request that
\* was enqueued first, and once every enqueued Put is processed (no I/O call
\* having failed) the entry appended last for a key is the one of the Put
\* enqueued last for it, and Index[key] holds that entry's offset.
C19_PutsInSubmissionOrder ==
    /\ (wpc \notin {"recv", "stopped"} /\ writeCh # <<>> /\ wreq.key = Head(writeCh).key
          /\ wreq.value # Head(writeCh).value /\ Len(writeCh) = 1)
         => latest[wreq.key] = Head(writeCh).value
    /\ (wpc = "recv" /\ writeCh = <<>> /\ nfaults = 0) =>
          \A k \in Keys :
              latest[k] # None =>
                 /\ \E i \in DOMAIN AppendOrder(fs) : AppendOrder(fs)[i].key = k
                 /\ LastEntry(fs, k).value = latest[k]
                 /\ k \in DOMAIN index
                 /\ index[k].offset = LastEntry(fs, k).offset

\* Two Puts for one key with different values were in the queue together; the
\* writer has appended and indexed the one enqueued first and the other one,
\* the later, is still queued.
C19_Witness ==
    /\ wpc = "reply" /\ wreq.err = "nil"
    /\ writeCh # <<>>
    /\ Head(writeCh).key = wreq.key
    /\ Head(writeCh).value # wreq.value
    /\ latest[wreq.key] = Head(writeCh).value
    /\ LastEntry(fs, wreq.key).value = wreq.value

\* C20: compaction and writing are mutually exclusive. In every state where
\* Compact has paused the writer and not yet restarted it, no writer exists: no
\* append and no rotation is in progress and the write queue is closed; and a
\* writer is started only when the one before it has ended.
C20_CompactExcludesWriter ==
    [][/\ WriterPaused' => (wpc' = "stopped" /\ ~writeChOpen')
       /\ (wpc' = "recv" /\ writeChOpen' /\ ~writeChOpen) => wpc = "stopped"]_vars

\* Compact is merging closed segments, the writer is stopped, and the caller
\* of a Put that the writer applied before it stopped has not yet returned.
C20_Witness ==
    /\ apc = "c_merge" /\ cmp.segs # <<>>
    /\ wpc = "stopped"
    /\ writeCh = <<>>
    /\ \E c \in PutClients : pcl[c].pc = "waiting" /\ pcl[c].done = "nil"

\* backgroundWriter is between two requests: it waits on db.writeCh.
WriterWaits == HasDb /\ wpc = "recv"

\* C21: the tracked append offset mirrors the active file's length. In every
\* state where the writer waits for its next request, after recovery, after a
\* successful Put, after a failed or partial append and after a rotation
\* attempt, the active file exists and db.outOffset is its length, so that the
\* position the next Put records in the Index is where its entry begins.
C21_OffsetMirrorsLength ==
    WriterWaits =>
        /\ activeFileName \in DOMAIN fs
        /\ outOffset = Len(fs[activeFileName].data)

\* C22: Compact leaves the active segment alone. No step taken while Compact
\* has the writer paused changes the active file or db.outOffset, and a key
\* whose Index entry names the active file keeps that entry and appears neither
\* among the entries Compact collected nor among the pointers it will install.
C22_CompactLeavesActiveAlone ==
    [][WriterPaused =>
          /\ (activeFileName \in DOMAIN fs') = (activeFileName \in DOMAIN fs)
          /\ activeFileName \in DOMAIN fs => fs'[activeFileName] = fs[activeFileName]
          /\ outOffset' = outOffset
          /\ \A k \in DOMAIN index :
                index[k].file = activeFileName =>
                   /\ k \in DOMAIN index' /\ index'[k] = index[k]
                   /\ k \notin DOMAIN cmp'.newPointers
                   /\ \A item \in cmp'.todo : item.key # k]_vars

\* Compact has merged a key out of a closed segment and installed its new
\* pointer; another key, written to the active file, was skipped: its Index
\* entry still names the active file and resolves to its entry there, and
\* db.outOffset is the length of that file.
C22_Witness ==
    /\ apc = "c_remove" /\ ~crashed
    /\ cmp.newPointers # <<>>
    /\ \A k \in DOMAIN cmp.newPointers : index[k] = cmp.newPointers[k]
    /\ activeFileName \in DOMAIN fs
    /\ outOffset = Len(fs[activeFileName].data)
    /\ \E k \in DOMAIN index :
          /\ index[k].file = activeFileName
          /\ k \notin DOMAIN cmp.newPointers
          /\ PointsAtEntry(index, fs, k)

\* The holders of db.indexMu, in either mode.
Holders == (IF indexMu.excl = "" THEN {} ELSE {indexMu.excl}) \cup indexMu.shared

\* The next step of the writer, of the worker serving client g, of Compact, is
\* a file operation: Write, Sync, Close, Rename, OpenFile; Open, Seek, Read;
\* OpenFile, Open, Seek, Read, Write, Sync, Close, Rename, Remove.
WriterAtIO == wpc \in {"write", "rot_sync", "rot_rename", "rot_open"}
ReaderAtIO(g) == \E r \in reads : r.client = g /\ ~r.locked
CompactAtIO == apc \in {"c_glob", "c_tmp", "c_merge", "c_rename", "c_remove"}

\* C23: the Index lock is never held across file I/O. In no reachable state is
\* the writer, a read worker or Compact about to perform a file operation while
\* it holds db.indexMu, shared or exclusive; and no step that changes a file is
\* taken by a holder: a holder's next step is its unlock.
C23_NoLockAcrossIO ==
    /\ WriterAtIO => "writer" \notin Holders
    /\ \A g \in GetClients : ReaderAtIO(g) => g \notin Holders
    /\ CompactAtIO => "compact" \notin Holders
    /\ "writer" \in Holders => wpc = "unlock"
    /\ "compact" \in Holders => apc \in {"c_snapped", "c_unlock"}
    /\ \A g \in GetClients : g \in Holders => \E r \in reads : r.client = g /\ r.locked

\* A read worker holds the lock shared for its lookup while the writer, its
\* record appended to the active file, waits for the lock to update the Index.
C23_Witness ==
    /\ ~crashed
    /\ wpc = "index" /\ wreq.err = "nil"
    /\ Len(fs[activeFileName].data) > outOffset
    /\ indexMu.excl = ""
    /\ \E g \in GetClients : g \in indexMu.shared

\* The reply to the Put of c, to the Get of g, is in its channel and the caller
\* has not taken it.
PutAnswered(c) == pcl[c].pc = "waiting" /\ pcl[c].done # Pending
GetAnswered(g) == gcl[g].pc = "waiting" /\ gcl[g].resp # NoResp

\* The request of c is in the write queue or held by the writer before its
\* reply; the request of g is in the read queue or held by a worker.
PutOutstanding(c) ==
    \/ \E i \in DOMAIN writeCh : writeCh[i].client = c
    \/ wreq.client = c /\ wpc \in {"write", "index", "unlock", "reply"}
GetOutstanding(g) ==
    \/ \E i \in DOMAIN getCh : getCh[i].client = g
    \/ \E r \in reads : r.client = g

\* C24: every request is answered exactly once and a caller that stops waiting
\* cannot stall the store. With the writer and the read pool scheduled fairly
\* and nothing assumed of the callers, every enqueued Put and every enqueued
\* Get gets its reply; a request that has its reply is held by no queue and no
\* worker, so no second reply follows; a worker about to deliver a reply finds
\* room in the reply channel; and a Put answered nil has its key in
\* the Index and, no I/O call having failed, its entry on disk whether or not
\* its caller takes the reply.
C24_EveryRequestAnswered ==
    /\ \A c \in PutClients : (pcl[c].pc = "waiting") ~> PutAnswered(c)
    /\ \A g \in GetClients : (gcl[g].pc = "waiting") ~> GetAnswered(g)
    /\ [](\A c \in PutClients :
            /\ PutAnswered(c) => ~PutOutstanding(c)
            /\ (pcl[c].pc = "waiting" /\ ~PutAnswered(c)) => PutOutstanding(c)
            /\ (PutAnswered(c) /\ pcl[c].done = "nil") =>
                  /\ pcl[c].key \in DOMAIN index
                  /\ nfaults = 0 =>
                        \E name \in DOMAIN fs :
                           <<pcl[c].key, pcl[c].value>> \in EntriesOf(fs[name].data, 0))
    /\ [](\A g \in GetClients :
            /\ GetAnswered(g) => ~GetOutstanding(g)
            /\ (gcl[g].pc = "waiting" /\ ~GetAnswered(g)) => GetOutstanding(g))
    /\ [](/\ wpc = "reply" => CanDeliver(DoneBuffered(wreq.client))
          /\ \A r \in reads : CanDeliver(RespBuffered(r.client)))

\* The caller of a Put has not taken its reply, which is nil; the writer has
\* gone on to wait for the next request, and a Get has been answered with the
\* value of that Put.
C24_Witness ==
    /\ \E c \in PutClients :
          /\ PutAnswered(c) /\ pcl[c].done = "nil"
          /\ \E g \in GetClients :
                /\ GetAnswered(g)
                /\ gcl[g].key = pcl[c].key
                /\ gcl[g].resp = [value |-> pcl[c].value, err |-> "nil"]
    /\ wpc = "recv" /\ wreq = NoReq


====
